---- MODULE Spec2Model ----
(***************************************************************************)
(* A model of Automat (automat.py): the Task readiness/execution state     *)
(* machine and the Agent that owns an ordered registry of Tasks and drives *)
(* them with run_once (one sweep) and run (the polling loop).              *)
(*                                                                         *)
(* Python objects live in `heap` (a Task's identity is its index there);   *)
(* Agent.tasks is the sequence `tasks` of such identities.  The program is *)
(* single-threaded: `mode` names the call in progress and `pc` the place   *)
(* inside it.  A bound action is opaque: every invocation ends in one of   *)
(* Outcomes.  Optional values are <<>> (None) or <<v>>.  A finished call   *)
(* stops at pc "returned" or "raised" with what it gave its caller in      *)
(* `ret`, and the caller goes on from there (resume).  The `timestamp`     *)
(* entry of execute's result, which nothing in the program reads, is left  *)
(* out of the result records.                                              *)
(***************************************************************************)
EXTENDS Integers, Sequences, FiniteSets, TLC

\* Bounds of the model: Task objects created, the clock's last value, and
\* execute calls begun in one behaviour.
MaxTasks == 2
MaxTime == 3
MaxExecutes == 2

Names == {"a", "b"}
Intervals == {0, 2}
\* How an invocation of a bound action can end: it returns, it raises an
\* Exception, or it raises a BaseException that is not an Exception (the
\* interrupt signal delivered while the action runs, or sys.exit()).
Outcomes == {"return", "Exception", "KeyboardInterrupt", "SystemExit"}
MaxIterationsArgs == {<<>>, <<0>>, <<1>>, <<2>>}

None == <<>>

VARIABLES
    heap,            \* Seq of Task objects, indexed by identity
    tasks,           \* Agent.tasks: Seq of identities
    running,         \* Agent.running
    now,             \* time.time()
    mode,            \* the call in progress ("run_once", "run", "execute", ...)
                     \* or just finished; "idle" between calls
    pc,              \* place inside the call: "none", "while", "for", "action",
                     \* "sleep"; "returned"/"raised" once it has finished
    it,              \* the list iterator of `for task in self.tasks`: items consumed
    cur,             \* identity of the Task whose execute is in progress (0: none)
    result,          \* execute's local `result` dict (<<>> outside execute)
    results,         \* run_once's local `results` list
    iteration,       \* run's local `iteration`
    max_iterations,  \* run's argument
    ret,             \* what the call that just finished gave its caller
    hist,            \* per Task: execute calls begun / ended by the action
                     \* returning / ended by the except block
    log,             \* identities whose action was invoked in the current sweep
    config,          \* Agent.config: <<mapping>>, a mapping being a set of
                     \* <<key, value>> pairs; <<>> while there is no agent
    at_start         \* the registry as it was when the current sweep began

vars == <<heap, tasks, running, now, mode, pc, it, cur, result, results,
          iteration, max_iterations, ret, hist, log, config, at_start>>

Ids == 1..Len(heap)

\* Task.__init__
Task(name, interval, enabled) ==
    [name |-> name, interval |-> interval, enabled |-> enabled,
     last_run |-> None, run_count |-> 0, status |-> "pending"]

\* The interval must be exceeded, not reached.
should_run_Strict(t, time) ==
    IF ~t.enabled THEN FALSE
    ELSE IF t.last_run = None THEN TRUE
    ELSE IF t.interval = 0 THEN FALSE
    ELSE (time - t.last_run[1]) > t.interval

\* The test for a zero interval is missing.
should_run_NoOneShot(t, time) ==
    IF ~t.enabled THEN FALSE
    ELSE IF t.last_run = None THEN TRUE
    ELSE (time - t.last_run[1]) >= t.interval

\* Once a repeating Task has run, the time elapsed is not looked at.
should_run_IgnoresElapsed(t, time) ==
    IF ~t.enabled THEN FALSE
    ELSE IF t.last_run = None THEN TRUE
    ELSE t.interval # 0

\* Task.should_run
should_run(t, time) ==
    IF ~t.enabled THEN FALSE
    ELSE IF t.last_run = None THEN TRUE
    ELSE IF t.interval = 0 THEN FALSE
    ELSE (time - t.last_run[1]) >= t.interval

\* run_once asks should_run, as run does.
run_once_gate_UsesShouldRun(t) == should_run(t, now)

\* run_once forgets the enabled flag.
run_once_gate_IgnoresEnabled(t) == t.last_run = None

\* The condition of run_once's loop body.
run_once_gate(t) == t.enabled /\ t.last_run = None

\* Which condition the sweep in progress applies to a Task.
Eligible(t) ==
    IF mode = "run_once" THEN run_once_gate(t) ELSE should_run(t, now)

\* execute: the `result` dict built before the try block.
NewResult(t) ==
    [task |-> t.name, status |-> "success",
     message |-> None, error |-> None]

\* execute does not mark the Task as running.
TaskRunning_Skipped(t) == t

\* execute: the statements of the try block before the action is called.
TaskRunning(t) == [t EXCEPT !.status = "running"]

\* A successful run does not record its time.
TaskCompleted_NoStamp(t) ==
    [t EXCEPT !.run_count = t.run_count + 1, !.status = "completed"]

\* execute: the statements of the try block after the action returned.
TaskCompleted(t) ==
    [t EXCEPT !.last_run = <<now>>, !.run_count = t.run_count + 1,
              !.status = "completed"]

\* A failed run records its time as a successful one does.
TaskFailed_Stamps(t) == [t EXCEPT !.status = "failed", !.last_run = <<now>>]

\* execute: the Task after the except block.
TaskFailed(t) == [t EXCEPT !.status = "failed"]

\* execute: `result` after the try block ran to its end.
ResultCompleted(r, t) == [r EXCEPT !.message = <<t.run_count>>]

\* The except block forgets to record the error in the result.
ResultFailed_NoError(r) == [r EXCEPT !.status = "failed"]

\* execute: `result` after the except block.
ResultFailed(r) == [r EXCEPT !.status = "failed", !.error = <<"Exception">>]

\* execute without its except clause.
ExecuteCatches_Nothing(outcome) == FALSE

\* Which exceptions execute's `except Exception` clause catches.
ExecuteCatches(outcome) == outcome = "Exception"

\* run without its except clause.
RunCatches_Nothing(exc) == FALSE

\* Which exceptions run's `except KeyboardInterrupt` clause catches.
RunCatches(exc) == exc = "KeyboardInterrupt"

\* `if max_iterations and iteration >= max_iterations`
LimitReached(max, iter) == max # None /\ max[1] # 0 /\ iter >= max[1]

Ret(res, flag, exc) == [results |-> res, flag |-> flag, exc |-> exc]

NoRet == Ret(<<>>, FALSE, "none")

NoHist == [calls |-> 0, oks |-> 0, fails |-> 0]

RECURSIVE SumCalls(_)
SumCalls(h) == IF h = <<>> THEN 0 ELSE Head(h).calls + SumCalls(Tail(h))

\* execute calls begun so far, over all Tasks
TotalCalls == SumCalls(hist)

Init ==
    /\ heap = <<>>
    /\ tasks = <<>>
    /\ running = FALSE
    /\ now = 1
    /\ mode = "idle"
    /\ pc = "none"
    /\ it = 0
    /\ cur = 0
    /\ result = None
    /\ results = <<>>
    /\ iteration = 0
    /\ max_iterations = None
    /\ ret = NoRet
    /\ hist = <<>>
    /\ log = <<>>
    /\ config = <<{}>>
    /\ at_start = <<>>

\* The call in progress ends, giving `r` to its caller; its locals are gone.
Leave(r) ==
    /\ mode' = mode
    /\ pc' = (IF r.exc = "none" THEN "returned" ELSE "raised")
    /\ it' = 0
    /\ cur' = 0
    /\ result' = None
    /\ results' = <<>>
    /\ iteration' = 0
    /\ max_iterations' = None
    /\ log' = log
    /\ ret' = r

\* run without its finally block: `running` stays as it was.
Propagate_NoFinally(exc) ==
    /\ running' = running
    /\ Leave(Ret(<<>>, FALSE, IF mode = "run" /\ RunCatches(exc) THEN "none" ELSE exc))

\* An exception `exc` that nothing inside the sweep catches leaves the call
\* in progress: run_once and a direct execute let it through to the caller;
\* run catches KeyboardInterrupt, and its finally block clears `running`.
Propagate(exc) ==
    IF mode = "run"
    THEN /\ running' = FALSE
         /\ Leave(Ret(<<>>, FALSE, IF RunCatches(exc) THEN "none" ELSE exc))
    ELSE /\ running' = running
         /\ Leave(Ret(<<>>, FALSE, exc))

\* time passes
Tick ==
    /\ now < MaxTime
    /\ now' = now + 1
    /\ UNCHANGED <<heap, tasks, running, mode, pc, it, cur, result, results,
                   iteration, max_iterations, ret, hist, log>>
    /\ UNCHANGED <<config, at_start>>

\* The new Task is put at the front of the registry.
Registered_AtFront(reg, id) == <<id>> \o reg

\* add_task: `self.tasks.append(task)`
Registered(reg, id) == Append(reg, id)

\* Agent.add_task
add_task(name, interval, enabled) ==
    /\ mode = "idle"
    /\ Len(heap) < MaxTasks
    /\ heap' = Append(heap, Task(name, interval, enabled))
    /\ tasks' = Registered(tasks, Len(heap) + 1)
    /\ hist' = Append(hist, NoHist)
    /\ mode' = "add_task"
    /\ pc' = "returned"
    /\ ret' = Ret(<<>>, TRUE, "none")
    /\ UNCHANGED <<running, now, it, cur, result, results,
                   iteration, max_iterations, log>>
    /\ UNCHANGED <<config, at_start>>

\* Positions of the registry holding a Task called `name`.
Matches(name) == {i \in 1..Len(tasks) : heap[tasks[i]].name = name}

\* remove_task takes the last Task of that name.
FirstMatch_Last(name) == CHOOSE i \in Matches(name) : \A j \in Matches(name) : i >= j

\* remove_task: the position at which its loop finds the name
FirstMatch(name) == CHOOSE i \in Matches(name) : \A j \in Matches(name) : i <= j

\* list.pop(i)
Pop(s, i) == SubSeq(s, 1, i - 1) \o SubSeq(s, i + 1, Len(s))

\* Agent.remove_task
remove_task(name) ==
    /\ mode = "idle"
    /\ IF Matches(name) # {}
       THEN /\ tasks' = Pop(tasks, FirstMatch(name))
            /\ ret' = Ret(<<>>, TRUE, "none")
       ELSE /\ tasks' = tasks
            /\ ret' = Ret(<<>>, FALSE, "none")
    /\ mode' = "remove_task"
    /\ pc' = "returned"
    /\ UNCHANGED <<heap, running, now, it, cur, result, results,
                   iteration, max_iterations, hist, log>>
    /\ UNCHANGED <<config, at_start>>

\* datetime.fromtimestamp(ts).isoformat(): the time `ts` as text
isoformat(ts) == [iso |-> ts]

\* `if task.last_run`: None is falsy, and so is the time 0
Truthy(opt) == opt # None /\ opt[1] # 0

\* The snapshot never tells the time of the last run.
Snapshot_NoLastRun(t) ==
    [name |-> t.name, status |-> t.status, enabled |-> t.enabled,
     interval |-> t.interval, run_count |-> t.run_count, last_run |-> None]

\* get_task_status: the dict built for one Task
Snapshot(t) ==
    [name |-> t.name, status |-> t.status, enabled |-> t.enabled,
     interval |-> t.interval, run_count |-> t.run_count,
     last_run |-> IF Truthy(t.last_run) THEN <<isoformat(t.last_run[1])>> ELSE None]

\* Agent.get_task_status
get_task_status ==
    /\ mode = "idle"
    /\ mode' = "get_task_status"
    /\ pc' = "returned"
    /\ ret' = Ret([i \in 1..Len(tasks) |-> Snapshot(heap[tasks[i]])], FALSE, "none")
    /\ UNCHANGED <<heap, tasks, running, now, it, cur, result, results,
                   iteration, max_iterations, hist, log>>
    /\ UNCHANGED <<config, at_start>>

\* stop abandons the rest of the sweep in progress.
stop_Preempts ==
    /\ running' = FALSE
    /\ it' = (IF mode = "run" /\ pc = "for" THEN Len(tasks) ELSE it)
    /\ UNCHANGED <<heap, tasks, now, mode, pc, cur, result, results,
                   iteration, max_iterations, ret, hist, log>>
    /\ UNCHANGED <<config, at_start>>

\* Agent.stop
stop ==
    /\ running' = FALSE
    /\ UNCHANGED <<heap, tasks, now, mode, pc, it, cur, result, results,
                   iteration, max_iterations, ret, hist, log>>
    /\ UNCHANGED <<config, at_start>>

\* Task.should_run called by the agent's user
should_run_call(id) ==
    /\ mode = "idle"
    /\ mode' = "should_run"
    /\ pc' = "returned"
    /\ cur' = id
    /\ ret' = Ret(<<>>, should_run(heap[id], now), "none")
    /\ UNCHANGED <<heap, tasks, running, now, it, result, results,
                   iteration, max_iterations, hist, log>>
    /\ UNCHANGED <<config, at_start>>

\* execute up to and including the call of the bound action
execute_begin(id) ==
    /\ TotalCalls < MaxExecutes
    /\ cur' = id
    /\ result' = NewResult(heap[id])
    /\ heap' = [heap EXCEPT ![id] = TaskRunning(heap[id])]
    /\ hist' = [hist EXCEPT ![id].calls = @ + 1]
    /\ pc' = "action"

\* Task.execute called directly on a Task
execute_call(id) ==
    /\ mode = "idle"
    /\ execute_begin(id)
    /\ mode' = "execute"
    /\ log' = <<id>>
    /\ UNCHANGED <<tasks, running, now, it, results, iteration, max_iterations,
                   ret>>
    /\ UNCHANGED <<config, at_start>>

\* Agent.run_once up to its loop
run_once_call ==
    /\ mode = "idle"
    /\ mode' = "run_once"
    /\ pc' = "for"
    /\ it' = 0
    /\ results' = <<>>
    /\ log' = <<>>
    /\ UNCHANGED <<heap, tasks, running, now, cur, result, iteration,
                   max_iterations, ret, hist>>
    /\ at_start' = tasks
    /\ UNCHANGED config

\* Agent.run up to its loop
run_call(max) ==
    /\ mode = "idle"
    /\ mode' = "run"
    /\ running' = TRUE
    /\ iteration' = 0
    /\ max_iterations' = max
    /\ pc' = "while"
    /\ UNCHANGED <<heap, tasks, now, it, cur, result, results, ret, hist, log>>
    /\ UNCHANGED <<config, at_start>>

\* run: the loop condition and the iteration limit
run_while ==
    /\ mode = "run"
    /\ pc = "while"
    /\ IF ~running \/ LimitReached(max_iterations, iteration)
       THEN /\ running' = FALSE
            /\ Leave(NoRet)
       ELSE /\ pc' = "for"
            /\ it' = 0
            /\ log' = <<>>
            /\ UNCHANGED <<running, mode, cur, result, results, iteration,
                           max_iterations, ret>>
    /\ UNCHANGED <<heap, tasks, now, hist>>
    /\ at_start' = (IF ~running \/ LimitReached(max_iterations, iteration)
                    THEN at_start ELSE tasks)
    /\ UNCHANGED config

\* The sweep walks the registry from its end.
NextTask_Reversed == tasks[Len(tasks) - it]

\* The Task the list iterator of `for task in self.tasks` yields next.
NextTask == tasks[it + 1]

\* the sweep takes the next Task of the registry and executes it
for_execute ==
    /\ mode \in {"run_once", "run"}
    /\ pc = "for"
    /\ it < Len(tasks)
    /\ Eligible(heap[NextTask])
    /\ it' = it + 1
    /\ execute_begin(NextTask)
    /\ log' = Append(log, NextTask)
    /\ UNCHANGED <<tasks, running, now, mode, results, iteration,
                   max_iterations, ret>>
    /\ UNCHANGED <<config, at_start>>

\* the sweep takes the next Task of the registry and passes over it
for_skip ==
    /\ mode \in {"run_once", "run"}
    /\ pc = "for"
    /\ it < Len(tasks)
    /\ ~Eligible(heap[NextTask])
    /\ it' = it + 1
    /\ UNCHANGED <<heap, tasks, running, now, mode, pc, cur, result, results,
                   iteration, max_iterations, ret, hist, log>>
    /\ UNCHANGED <<config, at_start>>

\* the registry is exhausted: run_once returns its results, run goes to sleep
for_done ==
    /\ mode \in {"run_once", "run"}
    /\ pc = "for"
    /\ it >= Len(tasks)
    /\ IF mode = "run_once"
       THEN Leave(Ret(results, FALSE, "none"))
       ELSE /\ pc' = "sleep"
            /\ UNCHANGED <<mode, it, cur, result, results, iteration,
                           max_iterations, ret, log>>
    /\ UNCHANGED <<heap, tasks, running, now, hist>>
    /\ UNCHANGED <<config, at_start>>

\* execute hands `r` to its caller
execute_return(r) ==
    CASE mode = "execute" ->
            /\ Leave(Ret(<<r>>, FALSE, "none"))
      [] mode = "run_once" ->
            /\ results' = Append(results, r)
            /\ pc' = "for"
            /\ cur' = 0
            /\ result' = None
            /\ UNCHANGED <<mode, it, iteration, max_iterations, ret, log>>
      [] mode = "run" ->
            /\ pc' = "for"
            /\ cur' = 0
            /\ result' = None
            /\ UNCHANGED <<mode, it, results, iteration, max_iterations, ret, log>>

\* the bound action returns: the rest of execute's try block
action_returns ==
    /\ pc = "action"
    /\ heap' = [heap EXCEPT ![cur] = TaskCompleted(heap[cur])]
    /\ hist' = [hist EXCEPT ![cur].oks = @ + 1]
    /\ execute_return(ResultCompleted(result, TaskCompleted(heap[cur])))
    /\ UNCHANGED <<tasks, running, now>>
    /\ UNCHANGED <<config, at_start>>

\* the bound action raises: execute's except block, or the exception leaves
\* execute when the except clause does not catch it
action_raises(exc) ==
    /\ pc = "action"
    /\ exc # "return"
    /\ IF ExecuteCatches(exc)
       THEN /\ heap' = [heap EXCEPT ![cur] = TaskFailed(heap[cur])]
            /\ hist' = [hist EXCEPT ![cur].fails = @ + 1]
            /\ execute_return(ResultFailed(result))
            /\ running' = running
       ELSE /\ Propagate(exc)
            /\ UNCHANGED <<heap, hist>>
    /\ UNCHANGED <<tasks, now>>
    /\ UNCHANGED <<config, at_start>>

\* run: time.sleep(1) and the increment of the iteration counter
run_sleep ==
    /\ mode = "run"
    /\ pc = "sleep"
    /\ now < MaxTime
    /\ now' = now + 1
    /\ iteration' = iteration + 1
    /\ pc' = "while"
    /\ UNCHANGED <<heap, tasks, running, mode, it, cur, result, results,
                   max_iterations, ret, hist, log>>
    /\ UNCHANGED <<config, at_start>>

\* the interrupt signal arrives while run or run_once is between two actions
interrupt ==
    /\ mode \in {"run_once", "run"}
    /\ pc \in {"while", "for", "sleep"}
    /\ Propagate("KeyboardInterrupt")
    /\ UNCHANGED <<heap, tasks, now, hist>>
    /\ UNCHANGED <<config, at_start>>

\* the caller of the finished call goes on; it has no agent to go on with when
\* the constructor raised
resume ==
    /\ pc \in {"returned", "raised"}
    /\ ~(mode = "__init__" /\ pc = "raised")
    /\ mode' = "idle"
    /\ pc' = "none"
    /\ cur' = 0
    /\ ret' = NoRet
    /\ log' = <<>>
    /\ UNCHANGED <<heap, tasks, running, now, it, result, results, iteration,
                   max_iterations, hist>>
    /\ at_start' = <<>>
    /\ UNCHANGED config

Next ==
    \/ Tick
    \/ \E n \in Names, i \in Intervals, e \in BOOLEAN : add_task(n, i, e)
    \/ \E n \in Names : remove_task(n)
    \/ get_task_status
    \/ stop
    \/ \E id \in Ids : should_run_call(id)
    \/ \E id \in Ids : execute_call(id)
    \/ run_once_call
    \/ \E m \in MaxIterationsArgs : run_call(m)
    \/ run_while
    \/ for_execute
    \/ for_skip
    \/ for_done
    \/ action_returns
    \/ \E exc \in Outcomes : action_raises(exc)
    \/ run_sleep
    \/ interrupt
    \/ resume

Spec == Init /\ [][Next]_vars

\* Construction of the Agent.  What the constructor's config_file argument
\* names: nothing (no argument), a path with no file, a file that is not
\* JSON, a file holding a JSON object.
ConfigFiles == {"none", "missing", "malformed", "valid"}

\* The mapping read from a well-formed configuration file.
ValidConfig == {<<"log_level", "INFO">>}

\* Agent._load_config.  Both except blocks call a method of self.logger
\* before returning the empty mapping; the lookup of the attribute raises
\* AttributeError when the agent has no logger yet.
load_config(file, has_logger) ==
    IF file = "valid" THEN [exc |-> "none", config |-> ValidConfig]
    ELSE IF has_logger THEN [exc |-> "none", config |-> {}]
    ELSE [exc |-> "AttributeError", config |-> {}]

\* Agent.__init__.  self.config is assigned (and _load_config called) before
\* the logging setup that ends by binding self.logger.
Agent_init(file) ==
    /\ mode = "new"
    /\ mode' = "__init__"
    /\ tasks' = <<>>
    /\ running' = FALSE
    /\ LET loaded == IF file = "none"
                     THEN [exc |-> "none", config |-> {}]
                     ELSE load_config(file, FALSE)
       IN  /\ config' = (IF loaded.exc = "none" THEN <<loaded.config>> ELSE None)
           /\ pc' = (IF loaded.exc = "none" THEN "returned" ELSE "raised")
           /\ ret' = Ret(<<>>, FALSE, loaded.exc)
    /\ UNCHANGED <<heap, now, it, cur, result, results, iteration,
                   max_iterations, hist, log, at_start>>

\* The state before the Agent is constructed.
InitNew ==
    /\ heap = <<>>
    /\ tasks = <<>>
    /\ running = FALSE
    /\ now = 1
    /\ mode = "new"
    /\ pc = "none"
    /\ it = 0
    /\ cur = 0
    /\ result = None
    /\ results = <<>>
    /\ iteration = 0
    /\ max_iterations = None
    /\ ret = NoRet
    /\ hist = <<>>
    /\ log = <<>>
    /\ config = None
    /\ at_start = <<>>

NextConstruct ==
    \/ \E f \in ConfigFiles : Agent_init(f)
    \/ Next

\* The program from the construction of its Agent on.
SpecConstruct == InitNew /\ [][NextConstruct]_vars

\* A bound action that holds a reference to its agent can call the agent's
\* methods while the sweep that invoked it is inside `for task in self.tasks`.
\* The list iterator of that loop keeps its index, whatever happens to the
\* list.

\* the bound action calls remove_task of its agent (a call that finds no Task
\* of that name changes nothing)
action_remove_task(name) ==
    /\ pc = "action"
    /\ Matches(name) # {}
    /\ tasks' = Pop(tasks, FirstMatch(name))
    /\ UNCHANGED <<heap, running, now, mode, pc, it, cur, result, results,
                   iteration, max_iterations, ret, hist, log, config, at_start>>

\* the bound action calls add_task of its agent
action_add_task(name, interval, enabled) ==
    /\ pc = "action"
    /\ Len(heap) < MaxTasks
    /\ heap' = Append(heap, Task(name, interval, enabled))
    /\ tasks' = Registered(tasks, Len(heap) + 1)
    /\ hist' = Append(hist, NoHist)
    /\ UNCHANGED <<running, now, mode, pc, it, cur, result, results,
                   iteration, max_iterations, ret, log, config, at_start>>

NextReentrant ==
    \/ Next
    \/ \E n \in Names : action_remove_task(n)
    \/ \E n \in Names, i \in Intervals, e \in BOOLEAN : action_add_task(n, i, e)

\* The program with actions that change the registry of their own agent.
SpecReentrant == Init /\ [][NextReentrant]_vars

----------------------------------------------------------------------------
(* Properties *)

Sweeping == mode \in {"run_once", "run"}

\* Every execute call begun on Task `id` ended by the action returning or in
\* the except block: none is in progress and none was left by an exception.
AllEnded(id) == hist[id].calls = hist[id].oks + hist[id].fails

\* The result a finished execute handed to its caller, as the caller sees it
\* in the next state: the return value of a direct call, or the entry
\* run_once appended to its list.
Handed == IF mode = "execute" THEN ret'.results[1] ELSE results'[Len(results')]

\* C1: for every Task and every sequence of execute calls on it, succeeding
\* or failing, run_count equals the number of execute calls made on it.
C1_RunCountCountsExecutes ==
    \A id \in Ids : AllEnded(id) => heap[id].run_count = hist[id].calls

\* C2 as stated: however the bound action ends, a direct execute returns
\* normally, with status "failed" and the error set when the action raised.
C2_ExecuteNeverPropagates ==
    mode = "execute" => pc # "raised"

\* C2, amended: an action that raises an Exception makes execute return
\* normally with result status "failed", error set, message absent, and the
\* record's status "failed"; an action that returns gives status "success",
\* error absent, message set; only a BaseException that is not an Exception
\* leaves execute, and then no result is handed over.
C2_ExecuteCatchesException ==
    [][ /\ (mode \in {"execute", "run_once"} /\ action_raises("Exception")) =>
            /\ pc' # "raised"
            /\ Handed.status = "failed"
            /\ Handed.error # None
            /\ Handed.message = None
            /\ heap'[cur].status = "failed"
        /\ (mode \in {"execute", "run_once"} /\ action_returns) =>
            /\ pc' # "raised"
            /\ Handed.status = "success"
            /\ Handed.error = None
            /\ Handed.message # None
        /\ \A exc \in {"KeyboardInterrupt", "SystemExit"} :
              (mode = "execute" /\ action_raises(exc)) =>
                 pc' = "raised" /\ ret'.exc = exc /\ ret'.results = <<>>
      ]_vars

\* A direct execute has returned a "failed" result with the error set.
C2_Witness ==
    /\ mode = "execute"
    /\ pc = "returned"
    /\ Len(ret.results) = 1
    /\ ret.results[1].status = "failed"
    /\ ret.results[1].error # None


\* Some Task executed earlier in the sweep in progress ended in the except block.
FailedInSweep == \E k \in 1..Len(log) : heap[log[k]].status = "failed"

LogSet == {log[k] : k \in 1..Len(log)}

\* The place of Task `id` in the registry.
Pos(id) == CHOOSE p \in 1..Len(tasks) : tasks[p] = id

\* C3 as stated: however the action of a task fails, the sweep goes on with
\* the next record and run_once/run do not end because of it.
C3_AnyFailureIsolated ==
    [][ \A exc \in Outcomes \ {"return"} :
          (Sweeping /\ action_raises(exc)) => (pc' = "for" /\ mode' = mode)
      ]_vars

\* C3, amended: a task whose action raises an Exception never aborts the sweep
\* of run_once or run: the sweep goes on at the next place of the registry
\* and does not raise; after such a failure every record the sweep takes and
\* finds eligible is executed; and a run_once that returns has executed every
\* enabled, never-succeeded record behind the failing one.
C3_ExceptionIsolated ==
    /\ [][ (Sweeping /\ action_raises("Exception")) =>
              /\ pc' = "for"
              /\ mode' = mode
              /\ it' = it
              /\ tasks' = tasks
              /\ running' = running
        ]_vars
    /\ [][ ( /\ Sweeping
             /\ pc = "for"
             /\ it < Len(tasks)
             /\ it' = it + 1
             /\ FailedInSweep
             /\ Eligible(heap[tasks[it + 1]]) ) =>
              (pc' = "action" /\ cur' = tasks[it + 1])
        ]_vars
    /\ []( (mode = "run_once" /\ pc = "returned") =>
              \A p, q \in 1..Len(tasks) :
                 ( /\ p < q
                   /\ tasks[p] \in LogSet
                   /\ heap[tasks[p]].status = "failed"
                   /\ heap[tasks[q]].enabled
                   /\ heap[tasks[q]].last_run = None ) => tasks[q] \in LogSet )

\* run_once has returned two results, the first of them "failed".
C3_Witness ==
    /\ mode = "run_once"
    /\ pc = "returned"
    /\ Len(ret.results) = 2
    /\ ret.results[1].status = "failed"

\* C4: run_once executes the record it takes if and only if the record is
\* enabled and its last_run is absent, whatever its interval and the time
\* elapsed; the list it returns holds one result per executed record, in
\* registry order, and none for a record it passed over.
C4_RunOnceGate ==
    /\ [][ (mode = "run_once" /\ pc = "for" /\ it < Len(tasks) /\ it' = it + 1) =>
              ( (pc' = "action" /\ cur' = tasks[it + 1]
                               /\ heap'[tasks[it + 1]].status = "running")
                <=> ( /\ heap[tasks[it + 1]].enabled
                      /\ heap[tasks[it + 1]].last_run = None ) )
        ]_vars
    /\ []( (mode = "run_once" /\ pc = "returned") =>
              /\ Len(ret.results) = Len(log)
              /\ \A k \in 1..Len(log) : ret.results[k].task = heap[log[k]].name
              /\ \A k, l \in 1..Len(log) : k < l => Pos(log[k]) < Pos(log[l]) )

\* run_once has returned after passing over an enabled record whose interval
\* has elapsed since its last_run.
C4_Witness ==
    /\ mode = "run_once"
    /\ pc = "returned"
    /\ Len(ret.results) = 1
    /\ \E p \in 1..Len(tasks) :
          /\ tasks[p] \notin LogSet
          /\ heap[tasks[p]].enabled
          /\ heap[tasks[p]].interval > 0
          /\ heap[tasks[p]].last_run # None
          /\ now - heap[tasks[p]].last_run[1] >= heap[tasks[p]].interval

\* No execute call was made on any Task before the sweep whose log this is.
NoPrior == \A id \in Ids : hist[id].calls = (IF id \in LogSet THEN 1 ELSE 0)

Enabled(id) == heap[id].enabled

\* The enabled records of the registry, in registry order.
EnabledTasks == SelectSeq(tasks, Enabled)

\* C5 as stated: with N records in the registry and no execute call made
\* before, run_once returns N results, one per record in registry order, and
\* each record has last_run set if and only if its result is a success.
C5_OneResultPerTask ==
    (mode = "run_once" /\ pc = "returned" /\ NoPrior) =>
        /\ Len(ret.results) = Len(tasks)
        /\ \A k \in 1..Len(tasks) :
              /\ ret.results[k].task = heap[tasks[k]].name
              /\ heap[tasks[k]].last_run # None <=> ret.results[k].status = "success"

\* C5, amended: with no execute call made before, run_once returns one result
\* per enabled record, in registry order, and none for a disabled record;
\* each enabled record has last_run set if and only if its result is a
\* success, and a disabled record's last_run stays absent.
C5_OneResultPerEnabledTask ==
    (mode = "run_once" /\ pc = "returned" /\ NoPrior) =>
        /\ Len(ret.results) = Len(EnabledTasks)
        /\ \A k \in 1..Len(EnabledTasks) :
              /\ ret.results[k].task = heap[EnabledTasks[k]].name
              /\ heap[EnabledTasks[k]].last_run # None
                    <=> ret.results[k].status = "success"
        /\ \A k \in 1..Len(tasks) :
              ~heap[tasks[k]].enabled => heap[tasks[k]].last_run = None

\* run_once, the first call to execute anything, has returned a success and
\* a failure for a registry of two enabled records.
C5_Witness ==
    /\ mode = "run_once"
    /\ pc = "returned"
    /\ NoPrior
    /\ Len(tasks) = 2
    /\ Len(ret.results) = 2
    /\ ret.results[1].status = "success"
    /\ ret.results[2].status = "failed"

\* C6: within one sweep of run_once or run the actions are invoked in
\* registry order, one Task at a time: when the action of a Task is running,
\* every Task whose action was invoked before it in the sweep has ended its
\* execute, with status, run_count and last_run updated.
C6_SweepInOrder ==
    (Sweeping /\ pc \in {"while", "for", "action", "sleep"}) =>
        /\ \A k, l \in 1..Len(log) : k < l => Pos(log[k]) < Pos(log[l])
        /\ \A k \in 1..Len(log) :
              IF pc = "action" /\ k = Len(log)
              THEN log[k] = cur /\ heap[cur].status = "running"
              ELSE /\ heap[log[k]].status \in {"completed", "failed"}
                   /\ heap[log[k]].status = "completed" =>
                         /\ heap[log[k]].last_run # None
                         /\ heap[log[k]].run_count >= 1
                         /\ hist[log[k]].oks >= 1
                   /\ heap[log[k]].status = "failed" => hist[log[k]].fails >= 1

\* The action of the second Task of a sweep is running.
C6_Witness ==
    /\ Sweeping
    /\ pc = "action"
    /\ Len(log) = 2

\* C7: should_run answers false for a disabled Task; otherwise true when
\* last_run is absent; otherwise false when the interval is 0; otherwise
\* whether the time elapsed since last_run has reached the interval.  For a
\* Task no execute was called on, it answers the enabled flag.
C7_ShouldRun ==
    [][ (mode = "idle" /\ mode' = "should_run") =>
          /\ ret'.flag <=>
                /\ heap[cur'].enabled
                /\ \/ heap[cur'].last_run = None
                   \/ /\ heap[cur'].interval # 0
                      /\ now - heap[cur'].last_run[1] >= heap[cur'].interval
          /\ hist[cur'].calls = 0 =>
                /\ heap[cur'].status = "pending"
                /\ heap[cur'].run_count = 0
                /\ heap[cur'].last_run = None
                /\ ret'.flag <=> heap[cur'].enabled
      ]_vars

\* should_run has answered true for a Task whose interval has just elapsed.
C7_Witness ==
    /\ mode = "should_run"
    /\ pc = "returned"
    /\ ret.flag
    /\ heap[cur].last_run # None
    /\ now - heap[cur].last_run[1] = heap[cur].interval

\* C8: once a zero-interval Task has succeeded, should_run is false for it in
\* every later state, a call of should_run answers false, and no sweep of
\* run_once or run calls its execute again.
C8_OneShot ==
    /\ [](\A id \in Ids :
             (heap[id].interval = 0 /\ hist[id].oks >= 1) => ~should_run(heap[id], now))
    /\ [][ (mode = "idle" /\ mode' = "should_run"
                          /\ heap[cur'].interval = 0 /\ hist[cur'].oks >= 1) =>
              ~ret'.flag
        ]_vars
    /\ [][ \A id \in Ids :
              (Sweeping /\ heap[id].interval = 0 /\ hist[id].oks >= 1) =>
                  hist'[id].calls = hist[id].calls
        ]_vars

\* A sweep has passed, at a later time, over an enabled zero-interval Task
\* that succeeded once.
C8_Witness ==
    /\ Sweeping
    /\ pc \in {"for", "sleep"}
    /\ \E p \in 1..it :
          /\ tasks[p] \notin LogSet
          /\ heap[tasks[p]].enabled
          /\ heap[tasks[p]].interval = 0
          /\ hist[tasks[p]].oks = 1
          /\ now > heap[tasks[p]].last_run[1]

\* C9: an enabled zero-interval Task all of whose execute calls failed has
\* should_run true, status "failed" and last_run absent; and as long as it
\* has not succeeded, every sweep of run_once or run that takes it executes
\* it again.
C9_FailureKeepsSlot ==
    /\ [](\A id \in Ids :
             ( /\ heap[id].enabled
               /\ heap[id].interval = 0
               /\ hist[id].fails >= 1
               /\ hist[id].calls = hist[id].fails ) =>
                 /\ should_run(heap[id], now)
                 /\ heap[id].status = "failed"
                 /\ heap[id].last_run = None)
    /\ [][ ( /\ Sweeping
             /\ pc = "for"
             /\ it < Len(tasks)
             /\ it' = it + 1
             /\ heap[tasks[it + 1]].enabled
             /\ heap[tasks[it + 1]].interval = 0
             /\ hist[tasks[it + 1]].oks = 0
             /\ hist[tasks[it + 1]].fails >= 1 ) =>
              /\ pc' = "action"
              /\ cur' = tasks[it + 1]
              /\ hist'[tasks[it + 1]].calls = hist[tasks[it + 1]].calls + 1
        ]_vars

\* A sweep is executing again a zero-interval Task that failed before.
C9_Witness ==
    /\ Sweeping
    /\ pc = "action"
    /\ heap[cur].interval = 0
    /\ hist[cur].oks = 0
    /\ hist[cur].fails >= 1

\* C10: an execute whose action returns sets last_run to the current time; an
\* execute that fails leaves last_run as it was; so last_run is present if
\* and only if some execute of the Task succeeded.
C10_LastRunIsLastSuccess ==
    /\ [](\A id \in Ids : heap[id].last_run # None <=> hist[id].oks >= 1)
    /\ [][ \A id \in Ids :
              /\ hist'[id].oks = hist[id].oks + 1 => heap'[id].last_run = <<now>>
              /\ hist'[id].oks = hist[id].oks => heap'[id].last_run = heap[id].last_run
        ]_vars

\* A Task that succeeded and then failed still has the last_run of its success.
C10_Witness ==
    \E id \in Ids :
        /\ hist[id].oks = 1
        /\ hist[id].fails = 1
        /\ heap[id].status = "failed"
        /\ heap[id].last_run # None
        /\ heap[id].last_run[1] < now

SweepsBegun == iteration + (IF pc \in {"for", "action", "sleep"} THEN 1 ELSE 0)

\* C12: given max_iterations = k >= 0, zero included, run performs at most k
\* sweeps.
C12_AtMostKSweeps ==
    (mode = "run" /\ max_iterations # None) => SweepsBegun <= max_iterations[1]

\* C13: stop only clears the flag; a sweep in progress when stop is called,
\* also from inside an action, still takes every remaining Task and executes
\* the ready ones, the execute in progress is not disturbed, and at the next
\* test of the loop condition run returns without beginning another sweep.
C13_StopAtLoopTop ==
    [][ /\ (mode = "run" /\ pc \in {"for", "action", "sleep"}
                         /\ running /\ ~running' /\ pc' = pc) =>
            UNCHANGED <<heap, tasks, now, mode, it, cur, result, results,
                        iteration, max_iterations, ret, hist, log>>
        /\ (mode = "run" /\ ~running /\ pc = "for" /\ it' = it + 1) =>
            IF should_run(heap[tasks[it + 1]], now)
            THEN pc' = "action" /\ cur' = tasks[it + 1]
            ELSE pc' = "for"
        /\ (mode = "run" /\ ~running /\ pc = "for" /\ pc' = "sleep") =>
            it = Len(tasks)
        /\ (mode = "run" /\ ~running /\ pc = "action" /\ action_returns) =>
            heap'[cur].status = "completed" /\ pc' = "for"
        /\ (mode = "run" /\ ~running /\ pc = "while" /\ pc' # pc) =>
            pc' = "returned" /\ ret'.exc = "none"
      ]_vars

\* After stop was called, the sweep in progress is executing its second Task.
C13_Witness ==
    /\ mode = "run"
    /\ ~running
    /\ pc = "action"
    /\ Len(log) = 2
    /\ heap[log[1]].status = "completed"

C15_RegistryInInsertionOrder ==
    /\ [](\A i, j \in 1..Len(tasks) : i < j => tasks[i] < tasks[j])
    /\ [][ /\ (mode = "idle" /\ mode' = "add_task") =>
               /\ Len(heap') = Len(heap) + 1
               /\ SubSeq(heap', 1, Len(heap)) = heap
               /\ Len(tasks') = Len(tasks) + 1
               /\ SubSeq(tasks', 1, Len(tasks)) = tasks
               /\ tasks'[Len(tasks')] = Len(heap')
               /\ pc' = "returned"
               /\ ret'.flag
           /\ (mode = "idle" /\ mode' = "remove_task") =>
               \/ tasks' = tasks
               \/ \E p \in 1..Len(tasks) : tasks' = Pop(tasks, p)
           /\ ~(mode = "idle" /\ mode' \in {"add_task", "remove_task"}) =>
               tasks' = tasks
        ]_vars

\* add_task has put a second Task of the same name behind the first.
C15_Witness ==
    /\ mode = "add_task"
    /\ pc = "returned"
    /\ tasks = <<1, 2>>
    /\ heap[1].name = heap[2].name

\* C16: remove_task(name) answers true exactly when the registry holds a Task
\* of that name; it then takes out the first such Task and nothing else, the
\* other Tasks keeping their order and their state; when it answers false
\* the registry is as it was.
C16_RemoveFirstMatch ==
    [][ \A n \in Names : remove_task(n) =>
          /\ ret'.flag <=> (\E i \in 1..Len(tasks) : heap[tasks[i]].name = n)
          /\ heap' = heap
          /\ running' = running
          /\ IF ret'.flag
             THEN \E p \in 1..Len(tasks) :
                     /\ heap[tasks[p]].name = n
                     /\ \A q \in 1..(p - 1) : heap[tasks[q]].name # n
                     /\ Len(tasks') = Len(tasks) - 1
                     /\ \A q \in 1..Len(tasks') :
                            tasks'[q] = (IF q < p THEN tasks[q] ELSE tasks[q + 1])
             ELSE tasks' = tasks
      ]_vars

\* remove_task has taken the first of two Tasks of the same name.
C16_Witness ==
    /\ mode = "remove_task"
    /\ pc = "returned"
    /\ ret.flag
    /\ tasks = <<2>>
    /\ heap[1].name = heap[2].name

\* C17: get_task_status returns one snapshot for every Task of the registry,
\* in registry order, whose name, status, enabled, interval and run_count are
\* the Task's, and whose last_run is absent exactly when the Task's is (and
\* otherwise is that time as text); it changes nothing.
C17_StatusIsPureRead ==
    [][ (mode = "idle" /\ mode' = "get_task_status") =>
          /\ pc' = "returned"
          /\ Len(ret'.results) = Len(tasks)
          /\ \A i \in 1..Len(tasks) :
                LET t == heap[tasks[i]]
                    snap == ret'.results[i]
                IN  /\ snap.name = t.name
                    /\ snap.status = t.status
                    /\ snap.enabled = t.enabled
                    /\ snap.interval = t.interval
                    /\ snap.run_count = t.run_count
                    /\ snap.last_run = None <=> t.last_run = None
                    /\ t.last_run # None => snap.last_run = <<isoformat(t.last_run[1])>>
          /\ UNCHANGED <<heap, tasks, running, now, hist>>
      ]_vars

\* get_task_status has returned the snapshots of a Task that succeeded and of
\* one that never ran.
C17_Witness ==
    /\ mode = "get_task_status"
    /\ pc = "returned"
    /\ Len(ret.results) = 2
    /\ ret.results[1].last_run # None
    /\ ret.results[1].run_count = 1
    /\ ret.results[2].last_run = None
    /\ ret.results[2].status = "pending"

\* C18: constructing an Agent never raises, whatever its configuration file:
\* when the file is missing or malformed the constructor completes, with the
\* empty mapping as the agent's config.
C18_ConstructionNeverRaises ==
    mode = "__init__" => (pc = "returned" /\ config # None)

\* C19 as stated: a Task has status "running" only while an execute call on
\* it is in progress.
C19_RunningOnlyInExecute ==
    \A id \in Ids : heap[id].status = "running" => (pc = "action" /\ cur = id)

\* C19, amended: a new Task is "pending" with run_count 0 and no last_run,
\* and a Task is "pending" exactly as long as no execute was begun on it; it
\* is "running" while an execute on it is in progress, and stays so only
\* when an exception that is not an Exception left that execute; an execute
\* that returns leaves it "completed" or "failed"; from any of these it can
\* be executed again.
C19_StatusMachine ==
    /\ [](\A id \in Ids :
             /\ heap[id].status = "pending" <=> hist[id].calls = 0
             /\ hist[id].calls = 0 =>
                   (heap[id].run_count = 0 /\ heap[id].last_run = None)
             /\ (pc = "action" /\ cur = id) => heap[id].status = "running"
             /\ (heap[id].status = "running" /\ ~(pc = "action" /\ cur = id)) =>
                   ~AllEnded(id)
             /\ (AllEnded(id) /\ hist[id].calls > 0) =>
                   heap[id].status \in {"completed", "failed"})
    /\ [][ /\ action_returns => heap'[cur].status = "completed"
           /\ action_raises("Exception") => heap'[cur].status = "failed"
           /\ \A exc \in {"KeyboardInterrupt", "SystemExit"} :
                 action_raises(exc) => heap'[cur].status = "running"
           /\ \A id \in Ids :
                 \/ heap'[id].status = heap[id].status
                 \/ /\ heap'[id].status = "running"
                    /\ pc' = "action"
                    /\ cur' = id
                 \/ /\ heap[id].status = "running"
                    /\ pc = "action"
                    /\ cur = id
                    /\ heap'[id].status \in {"completed", "failed"}
           /\ (mode = "idle" /\ mode' = "add_task") =>
                 /\ heap'[Len(heap')].status = "pending"
                 /\ heap'[Len(heap')].run_count = 0
                 /\ heap'[Len(heap')].last_run = None
        ]_vars

\* A Task that ended "completed" or "failed" is being executed again.
C19_Witness ==
    /\ pc = "action"
    /\ heap[cur].status = "running"
    /\ hist[cur].calls = 2
    /\ hist[cur].oks + hist[cur].fails = 1

\* C20: a sweep of run executes each Task it reaches exactly when the Task is
\* enabled and either never succeeded or repeats and its interval has
\* elapsed since its last success; run sleeps one unit of time only after the
\* whole registry was swept; so a success of a Task of interval k >= 1 in
\* run comes at least k after its success before, and a Task whose interval
\* has elapsed is executed when the next sweep reaches it.
C20_SweepByInterval ==
    [][ /\ (mode = "run" /\ pc = "for" /\ it < Len(tasks) /\ it' = it + 1) =>
            LET t == heap[tasks[it + 1]]
                ready == /\ t.enabled
                         /\ \/ t.last_run = None
                            \/ /\ t.interval >= 1
                               /\ now - t.last_run[1] >= t.interval
            IN  IF ready
                THEN /\ pc' = "action"
                     /\ cur' = tasks[it + 1]
                     /\ hist'[cur'].calls = hist[cur'].calls + 1
                ELSE /\ pc' = "for"
                     /\ heap' = heap
                     /\ hist' = hist
        /\ (mode = "run" /\ pc = "for" /\ pc' = "sleep") => it = Len(tasks)
        /\ (mode = "run" /\ pc = "sleep" /\ pc' = "while") =>
            /\ now' = now + 1
            /\ iteration' = iteration + 1
            /\ heap' = heap
        /\ ( /\ mode = "run"
             /\ action_returns
             /\ heap[cur].interval >= 1
             /\ heap[cur].last_run # None ) =>
            heap'[cur].last_run[1] - heap[cur].last_run[1] >= heap[cur].interval
      ]_vars

\* In its third sweep run has executed, for the second time with success, a
\* Task of interval 2, two units of time after its first success.
C20_Witness ==
    /\ mode = "run"
    /\ iteration = 2
    /\ pc = "for"
    /\ Len(log) = 1
    /\ heap[log[1]].interval = 2
    /\ hist[log[1]].oks = 2
    /\ heap[log[1]].last_run = <<3>>

\* Identities held by a registry.
Held(reg) == {reg[k] : k \in 1..Len(reg)}

\* C21: when a sweep of run_once or run has come to the end of the registry,
\* also after actions that called remove_task or add_task, every Task that
\* was in the registry when the sweep began, is in it now, and was eligible
\* all the time (enabled, never succeeded) has been executed in the sweep,
\* and no Task has been executed twice in it.
C21_SweepComplete ==
    (Sweeping /\ pc = "for" /\ it >= Len(tasks)) =>
        /\ \A id \in Held(at_start) \cap Held(tasks) :
              (heap[id].enabled /\ heap[id].last_run = None) => id \in LogSet
        /\ \A i, j \in 1..Len(log) : i # j => log[i] # log[j]

====
